---- MODULE Spec2Model ----
(***************************************************************************)
(* A model of examples/hetero/hetero_link_pred.py: rating prediction on    *)
(* the bipartite user/movie graph.  The script is one sequential process;  *)
(* pc is its position, the other variables are its module-level names.     *)
(* Tensors of floats are modelled with exact rationals <<num, den>>        *)
(* (den = 0: <<1,0>> is +inf, <<-1,0>> is -inf, <<0,0>> is nan).            *)
(***************************************************************************)
EXTENDS Integers, Sequences, FiniteSets, TLC

VARIABLES disk, pc, args, data, train_data, val_data, test_data, weight,
          model, optimizer, grad, frame, epoch, loss,
          train_rmse, val_rmse, test_rmse, stdout

vars == <<disk, pc, args, data, train_data, val_data, test_data, weight,
          model, optimizer, grad, frame, epoch, loss,
          train_rmse, val_rmse, test_rmse, stdout>>

\* None, and a name not bound yet (a tensor the script tests against None,
\* weight, is never empty: the max of an empty bincount raises)
None == <<>>

(* ------------------------------ bounds -------------------------------- *)
\* edges of the largest dataset of a whole run of the script
MaxRunEdges == 3
\* edges of the largest dataset the data preparation is run on
MaxEdges == 11
\* abstract values a parameter tensor ranges over: 0..MaxTheta
MaxTheta == 1
\* ratings of the largest dataset given every combination of ratings
MaxLen == 3
\* longest vector a tensor function is applied to on its own
MaxVecLen == 2
\* users of the dataset (its movies: as many as the edges need, plus one)
NumUsers == 2

(* ------------------------- program constants --------------------------- *)
\* range(1, 301)
LastEpoch == 300
\* pred.clamp(min=0, max=5)
ClampMin == 0
ClampMax == 5
\* num_val=0.1, num_test=0.1 as percentages; neg_sampling_ratio=0.0
num_val == 10
num_test == 10
neg_sampling_ratio == 0

(* ----------------------------- rationals ------------------------------- *)
Abs(n) == IF n < 0 THEN -n ELSE n
Sign(n) == IF n < 0 THEN -1 ELSE IF n > 0 THEN 1 ELSE 0

RECURSIVE GCD(_, _)
GCD(a, b) == IF b = 0 THEN a ELSE GCD(b, a % b)

\* the float n/d: x/0 is an infinity (0/0 nan)
Norm(n, d) ==
    IF d = 0 THEN <<Sign(n), 0>>
    ELSE LET g == GCD(Abs(n), Abs(d))
             s == Sign(d)
         IN  <<(s * n) \div g, (s * d) \div g>>

Rat(n) == <<n, 1>>
Inf == <<1, 0>>
NaN == <<0, 0>>
IsFinite(x) == x[2] # 0
IsNaN(x) == x = NaN

RMul(x, y) == Norm(x[1] * y[1], x[2] * y[2])

RAdd(x, y) ==
    IF IsFinite(x) /\ IsFinite(y) THEN Norm(x[1] * y[2] + y[1] * x[2], x[2] * y[2])
    ELSE IF IsNaN(x) \/ IsNaN(y) THEN NaN
    ELSE IF IsFinite(x) THEN y
    ELSE IF IsFinite(y) THEN x
    ELSE IF x = y THEN x ELSE NaN

RSub(x, y) == RAdd(x, <<-y[1], y[2]>>)

\* x <= y and x < y on floats: every comparison with nan is false
RLe(x, y) ==
    /\ ~IsNaN(x) /\ ~IsNaN(y)
    /\ IF IsFinite(x) /\ IsFinite(y) THEN x[1] * y[2] <= y[1] * x[2]
       ELSE IF IsFinite(x) THEN y[1] > 0
       ELSE IF IsFinite(y) THEN x[1] < 0
       ELSE x[1] <= y[1]
RLt(x, y) == RLe(x, y) /\ x # y

(* ------------------------------ tensors -------------------------------- *)
\* a tensor of rank 1 is a sequence; index i of the program is position i + 1
Range(s) == {s[i] : i \in 1..Len(s)}

RECURSIVE SumSeq(_)
SumSeq(s) == IF s = <<>> THEN Rat(0) ELSE RAdd(s[1], SumSeq(Tail(s)))

\* a sum where the mean is meant
Mean_as_sum(s) == SumSeq(s)

\* Tensor.mean(): the mean of an empty tensor is nan
Mean(s) == RMul(SumSeq(s), Norm(1, Len(s)))

SetMax(S) == CHOOSE m \in S : \A x \in S : x <= m

\* bins 1..max(x): the bin of rating 0 dropped
Bincount_from_one(x) ==
    IF x = <<>> THEN <<>>
    ELSE [b \in 1..SetMax(Range(x)) |->
             Cardinality({i \in 1..Len(x) : x[i] = b})]

\* torch.bincount(x): bins 0..max(x), an empty tensor for an empty x
Bincount(x) ==
    IF x = <<>> THEN <<>>
    ELSE [b \in 1..(SetMax(Range(x)) + 1) |->
             Cardinality({i \in 1..Len(x) : x[i] = b - 1})]

\* weight / weight.max(): the quotient the wrong way round
MaxOver_inverted(w) == [b \in 1..Len(w) |-> Norm(w[b], SetMax(Range(w)))]

\* weight.max() / weight, elementwise true division
MaxOver(w) == [b \in 1..Len(w) |-> Norm(SetMax(Range(w)), w[b])]

\* weight[target]
IndexBy(w, target) == [i \in 1..Len(target) |-> w[target[i] + 1]]

\* (pred - target.to(pred.dtype)).pow(2)
SquaredError(p, target) ==
    [i \in 1..Len(p) |-> Rat((p[i] - target[i]) * (p[i] - target[i]))]

\* the scalar c broadcast to the shape of t
Broadcast(c, t) == [i \in 1..Len(t) |-> c]

\* w * t, elementwise
Scale(w, t) == [i \in 1..Len(t) |-> RMul(w[i], t[i])]

weighted_mse_loss(p, target, w) ==
    LET sq == SquaredError(p, target)
        wt == IF w = None THEN Broadcast(Rat(1), sq) ELSE IndexBy(w, target)
    IN  Mean(Scale(wt, sq))

\* pred.clamp(max=5): the lower end forgotten
Clamp_max_only(p, lo, hi) == [i \in 1..Len(p) |-> IF p[i] > hi THEN hi ELSE p[i]]

\* pred.clamp(min=0, max=5)
Clamp(p, lo, hi) ==
    [i \in 1..Len(p) |-> IF p[i] < lo THEN lo ELSE IF p[i] > hi THEN hi ELSE p[i]]

\* F.mse_loss(pred, target)
mse_loss(p, target) == Mean(SquaredError(p, target))

\* Tensor.sqrt(), kept symbolic: the root of x (of nan: nan)
Sqrt(x) == <<"sqrt", x>>

(* ------------------------------- graphs -------------------------------- *)
\* ('user','rates','movie') is "rates", ('movie','rev_rates','user') "rev_rates"
Rev(rel) == "rev_" \o rel

RECURSIVE SortedSeq(_)
SortedSeq(S) ==
    IF S = {} THEN <<>>
    ELSE LET m == CHOOSE x \in S : \A y \in S : x <= y
         IN  <<m>> \o SortedSeq(S \ {m})

\* t[index] and t[:, index] for a sequence of positions
Pick(t, index) == [i \in 1..Len(index) |-> t[index[i]]]
Flip(ei) == [i \in 1..Len(ei) |-> <<ei[i][2], ei[i][1]>>]

\* the i-th rating of the dataset: user and movie of the pair
EdgeOf(i) == <<((i - 1) % NumUsers) + 1, ((i - 1) \div NumUsers) + 1>>
NumMovies(n) == (n \div NumUsers) + 2

\* the MovieLens graph with ratings labels: dataset[0]
MovieLens(labels) ==
    [user  |-> [num_nodes |-> NumUsers],
     movie |-> [x |-> [rows |-> NumMovies(Len(labels))]],
     edges |-> ("rates" :> [edge_index |-> [i \in 1..Len(labels) |-> EdgeOf(i)],
                            edge_label |-> labels])]

LabelVectors(maxn, maxl) == UNION {[1..n -> 0..maxl] : n \in 0..maxn}

\* the datasets of a whole run, and those the preparation alone is run on
\* (a whole run: no rating at all, or the ratings 1, 3, 1, ..., so that 0 and
\* 2 never appear)
RunDisks ==
    {MovieLens([i \in 1..n |-> 1 + 2 * ((i - 1) % 2)]) : n \in {0, MaxRunEdges}}
PrepDisks ==
    {MovieLens(l) : l \in LabelVectors(MaxLen, ClampMax)} \cup
    {MovieLens([i \in 1..n |-> i % (ClampMax + 1)]) : n \in (MaxLen + 1)..MaxEdges}

(* --------------------------- the library calls ------------------------- *)
Without(store, key) == [k \in DOMAIN store \ {key} |-> store[k]]

\* the store of the reverse relation: edge_index flipped, the edge-level
\* attributes copied
Reversed(store) ==
    [k \in DOMAIN store |->
        IF k = "edge_index" THEN Flip(store.edge_index) ELSE store[k]]

\* T.ToUndirected() on a bipartite graph: a rev_ relation for every relation
ToUndirected(d) ==
    LET rels == DOMAIN d.edges
        revs == {Rev(r) : r \in rels}
        orig(q) == CHOOSE r \in rels : Rev(r) = q
    IN  [d EXCEPT !.edges =
            [r \in rels \cup revs |->
                IF r \in rels THEN d.edges[r] ELSE Reversed(d.edges[orig(r)])]]

\* int(fraction * number of edges), the fraction in percent
NumOf(pct, n) == (pct * n) \div 100

\* the user/movie pairs that are not edges of the store, in a fixed order
NonEdges(d, store) ==
    LET all == 1..(d.user.x.rows * d.movie.x.rows)
    IN  SortedSeq({j \in all : EdgeOf(j) \notin Range(store.edge_index)})

Min(a, b) == IF a < b THEN a ELSE b

\* one split of RandomLinkSplit: the relation et keeps the message-passing
\* edges mp and is labelled with the edges lab (and ratio * |lab| negative
\* pairs, labelled 0 below the shifted ratings); rev mirrors et
SplitStore(d, et, rev, mp, lab, ratio) ==
    LET fwd   == d.edges[et]
        kept  == [k \in DOMAIN fwd |-> Pick(fwd[k], mp)]
        non   == NonEdges(d, fwd)
        negs  == [j \in 1..Min(ratio * Len(lab), Len(non)) |-> EdgeOf(non[j])]
        pos   == IF "edge_label" \in DOMAIN fwd
                 THEN [i \in 1..Len(lab) |->
                          fwd.edge_label[lab[i]] + (IF ratio > 0 THEN 1 ELSE 0)]
                 ELSE [i \in 1..Len(lab) |-> 1]
        out   == [k \in DOMAIN fwd \cup {"edge_label", "edge_label_index"} |->
                    IF k = "edge_label" THEN pos \o [j \in 1..Len(negs) |-> 0]
                    ELSE IF k = "edge_label_index"
                         THEN Pick(fwd.edge_index, lab) \o negs
                    ELSE kept[k]]
        back  == [k \in DOMAIN d.edges[rev] \cap DOMAIN kept |->
                    IF k = "edge_index" THEN Flip(kept.edge_index) ELSE kept[k]]
    IN  [d EXCEPT !.edges =
            [r \in DOMAIN d.edges |->
                IF r = et THEN out ELSE IF r = rev THEN back ELSE d.edges[r]]]

\* T.RandomLinkSplit(...)(d) for the drawn validation edges V and test edges T
RandomLinkSplit(d, et, rev, ratio, V, T) ==
    LET n  == Len(d.edges[et].edge_index)
        tr == SortedSeq((1..n) \ (V \cup T))
        va == SortedSeq(V)
        te == SortedSeq(T)
    IN  <<SplitStore(d, et, rev, tr, tr, ratio),
          SplitStore(d, et, rev, tr, va, ratio),
          SplitStore(d, et, rev, tr \o va, te, ratio)>>

(* ------------------------- the data preparation ------------------------ *)
\* line 25: the one-hot user features, one row per user
WithEye(d) ==
    [d EXCEPT !.user = [k \in DOMAIN d.user \cup {"x"} |->
                           IF k = "x" THEN [rows |-> d.user.num_nodes]
                           ELSE d.user[k]]]

\* line 26
DelNum(d) == [d EXCEPT !.user = Without(d.user, "num_nodes")]

\* line 30
DelLabel(d) == [d EXCEPT !.edges["rev_rates"] = Without(@, "edge_label")]

\* lines 21-22: dataset = MovieLens(path, ...); data = dataset[0]
Load ==
    /\ pc = "L21"
    /\ data' = disk
    /\ pc' = "L25"
    /\ UNCHANGED <<disk, args, train_data, val_data, test_data, weight, model,
                   optimizer, grad, frame, epoch, loss, train_rmse, val_rmse,
                   test_rmse, stdout>>

\* line 25: data['user'].x = torch.eye(data['user'].num_nodes)
EyeFeatures ==
    /\ pc = "L25"
    /\ data' = WithEye(data)
    /\ pc' = "L26"
    /\ UNCHANGED <<disk, args, train_data, val_data, test_data, weight, model,
                   optimizer, grad, frame, epoch, loss, train_rmse, val_rmse,
                   test_rmse, stdout>>

\* line 26: del data['user'].num_nodes
DelNumNodes ==
    /\ pc = "L26"
    /\ data' = DelNum(data)
    /\ pc' = "L29"
    /\ UNCHANGED <<disk, args, train_data, val_data, test_data, weight, model,
                   optimizer, grad, frame, epoch, loss, train_rmse, val_rmse,
                   test_rmse, stdout>>

\* line 29: data = T.ToUndirected()(data)
AddReverse ==
    /\ pc = "L29"
    /\ data' = ToUndirected(data)
    /\ pc' = "L30"
    /\ UNCHANGED <<disk, args, train_data, val_data, test_data, weight, model,
                   optimizer, grad, frame, epoch, loss, train_rmse, val_rmse,
                   test_rmse, stdout>>

\* line 30 left out: the reverse relation keeps the copied label
DelRevLabel_skipped ==
    /\ pc = "L30"
    /\ pc' = "L33"
    /\ UNCHANGED <<disk, args, data, train_data, val_data, test_data, weight,
                   model, optimizer, grad, frame, epoch, loss, train_rmse,
                   val_rmse, test_rmse, stdout>>

\* line 30: del data['movie', 'rev_rates', 'user'].edge_label
DelRevLabel ==
    /\ pc = "L30"
    /\ data' = DelLabel(data)
    /\ pc' = "L33"
    /\ UNCHANGED <<disk, args, train_data, val_data, test_data, weight, model,
                   optimizer, grad, frame, epoch, loss, train_rmse, val_rmse,
                   test_rmse, stdout>>

\* the link split of "rates" with its reverse "rev_rates", negatives by ratio
LinkSplitWith(ratio) ==
    /\ pc = "L33"
    /\ LET n  == Len(data.edges["rates"].edge_index)
           nv == NumOf(num_val, n)
           nt == NumOf(num_test, n)
       IN  /\ n - nv - nt > 0
           /\ \E V \in SUBSET (1..n) :
                /\ Cardinality(V) = nv
                /\ \E T \in SUBSET ((1..n) \ V) :
                     /\ Cardinality(T) = nt
                     /\ LET s == RandomLinkSplit(data, "rates", "rev_rates",
                                                 ratio, V, T)
                        IN  /\ train_data' = s[1]
                            /\ val_data' = s[2]
                            /\ test_data' = s[3]
    /\ pc' = "L43"
    /\ UNCHANGED <<disk, args, data, weight, model, optimizer, grad, frame,
                   epoch, loss, train_rmse, val_rmse, test_rmse, stdout>>

\* lines 33-39 without neg_sampling_ratio=0.0: the transform's default, 1.0
LinkSplit_default_ratio == LinkSplitWith(1)

\* lines 33-39: num_val=0.1, num_test=0.1, neg_sampling_ratio=0.0
LinkSplit == LinkSplitWith(neg_sampling_ratio)

\* lines 33-39 on a graph with no rating: the split raises ValueError
LinkSplitRaises ==
    /\ pc = "L33"
    /\ LET n == Len(data.edges["rates"].edge_index)
       IN  n - NumOf(num_val, n) - NumOf(num_test, n) <= 0
    /\ pc' = "error"
    /\ UNCHANGED <<disk, args, data, train_data, val_data, test_data, weight,
                   model, optimizer, grad, frame, epoch, loss, train_rmse,
                   val_rmse, test_rmse, stdout>>

\* lines 43-47: the loss weights from the training labels, or None
ComputeWeight ==
    /\ pc = "L43"
    /\ weight' = IF args.use_weighted_loss
                 THEN MaxOver(Bincount(train_data.edges["rates"].edge_label))
                 ELSE None
    /\ pc' = "L95"
    /\ UNCHANGED <<disk, args, data, train_data, val_data, test_data, model,
                   optimizer, grad, frame, epoch, loss, train_rmse, val_rmse,
                   test_rmse, stdout>>

(* ------------------------------ the model ------------------------------ *)
Theta == 0..MaxTheta
Uninit == "uninitialized"

\* the parameter tensors: to_hetero gives each SAGEConv layer one copy per
\* edge type of the metadata; the decoder has two Linear layers
EncoderParams(rels) == {"conv1." \o r : r \in rels} \cup {"conv2." \o r : r \in rels}
DecoderParams == {"lin1", "lin2"}

\* Model(hidden_channels=32): SAGEConv((-1, -1), ...) is lazily shaped,
\* Linear(2 * hidden_channels, ...) is not; dec is the decoder's initial value
Model(metadata, dec) ==
    [shape |-> [p \in EncoderParams(metadata) \cup DecoderParams |->
                   IF p \in DecoderParams THEN "concrete" ELSE "lazy"],
     theta |-> [encoder |-> Uninit, decoder |-> dec],
     training |-> TRUE]

\* a pass that shapes nothing
Materialize_nothing(m, d, enc) == m

\* the encoder's first forward pass on d shapes (and initializes to enc) the
\* copies of the layers for the edge types of d.edge_index_dict
Materialize(m, d, enc) ==
    LET sh == [p \in DOMAIN m.shape |->
                  IF p \in EncoderParams(DOMAIN d.edges) THEN "concrete"
                  ELSE m.shape[p]]
    IN  [m EXCEPT !.shape = sh,
                  !.theta.encoder =
                      IF m.theta.encoder = Uninit /\ \A p \in DOMAIN sh : sh[p] = "concrete"
                      THEN enc ELSE @]

PredVals == (ClampMin - 1)..(ClampMax + 1)

\* the score of the pair <<u, m>>: a fixed function, standing for the
\* network's, of the parameter values, the message-passing edges and the pair
Score(theta, d, e) ==
    ((3 * theta.encoder + 5 * theta.decoder + Len(d.edges["rates"].edge_index)
      + Len(d.edges["rev_rates"].edge_index) + 2 * e[1] + e[2])
     % Cardinality(PredVals)) + (ClampMin - 1)

\* model(d.x_dict, d.edge_index_dict, d['user', 'movie'].edge_label_index)
Forward(m, d) ==
    LET idx == d.edges["rates"].edge_label_index
    IN  [i \in 1..Len(idx) |-> Score(m.theta, d, idx[i])]

\* line 95: model = Model(hidden_channels=32), over data.metadata()
Construct ==
    /\ pc = "L95"
    /\ \E dec \in Theta : model' = Model(DOMAIN data.edges, dec)
    /\ pc' = "L99"
    /\ UNCHANGED <<disk, args, data, train_data, val_data, test_data, weight,
                   optimizer, grad, frame, epoch, loss, train_rmse, val_rmse,
                   test_rmse, stdout>>

\* lines 99-100: with torch.no_grad(): model.encoder(train_data...)
DryPass ==
    /\ pc = "L99"
    /\ \E enc \in Theta : model' = Materialize(model, train_data, enc)
    /\ pc' = "L102"
    /\ UNCHANGED <<disk, args, data, train_data, val_data, test_data, weight,
                   optimizer, grad, frame, epoch, loss, train_rmse, val_rmse,
                   test_rmse, stdout>>

\* line 102: optimizer = torch.optim.Adam(model.parameters(), lr=0.01);
\* steps counts the updates, the moments accumulate one gradient per update
CreateOptimizer ==
    /\ pc = "L102"
    /\ optimizer' = [params |-> DOMAIN model.shape, steps |-> 0]
    /\ pc' = "L128"
    /\ UNCHANGED <<disk, args, data, train_data, val_data, test_data, weight,
                   model, grad, frame, epoch, loss, train_rmse, val_rmse,
                   test_rmse, stdout>>

(* ------------------------------- train() ------------------------------- *)
\* train() without its model.train()
TrainMode_no_flag ==
    /\ pc = "L129"
    /\ frame' = [fn |-> "train"]
    /\ pc' = "L107"
    /\ UNCHANGED <<disk, args, data, train_data, val_data, test_data, weight,
                   model, optimizer, grad, epoch, loss, train_rmse, val_rmse,
                   test_rmse, stdout>>

\* line 129 calls train(); line 106: model.train()
TrainMode ==
    /\ pc = "L129"
    /\ model' = [model EXCEPT !.training = TRUE]
    /\ frame' = [fn |-> "train"]
    /\ pc' = "L107"
    /\ UNCHANGED <<disk, args, data, train_data, val_data, test_data, weight,
                   optimizer, grad, epoch, loss, train_rmse, val_rmse,
                   test_rmse, stdout>>

\* line 107: optimizer.zero_grad()
ZeroGrad ==
    /\ pc = "L107"
    /\ grad' = None
    /\ pc' = "L108"
    /\ UNCHANGED <<disk, args, data, train_data, val_data, test_data, weight,
                   model, optimizer, frame, epoch, loss, train_rmse, val_rmse,
                   test_rmse, stdout>>

\* lines 108-110: pred = model(...); target = train_data[...].edge_label
TrainForward ==
    /\ pc = "L108"
    /\ frame' = [fn |-> "train", pred |-> Forward(model, train_data),
                 target |-> train_data.edges["rates"].edge_label]
    /\ pc' = "L111"
    /\ UNCHANGED <<disk, args, data, train_data, val_data, test_data, weight,
                   model, optimizer, grad, epoch, loss, train_rmse, val_rmse,
                   test_rmse, stdout>>

\* line 111: loss = weighted_mse_loss(pred, target, weight)
TrainLoss ==
    /\ pc = "L111"
    /\ frame' = [fn |-> "train", pred |-> frame.pred, target |-> frame.target,
                 loss |-> weighted_mse_loss(frame.pred, frame.target, weight)]
    /\ pc' = "L112"
    /\ UNCHANGED <<disk, args, data, train_data, val_data, test_data, weight,
                   model, optimizer, grad, epoch, loss, train_rmse, val_rmse,
                   test_rmse, stdout>>

\* the gradients reset after loss.backward() instead of before the pass
Backward_then_zero ==
    /\ pc = "L112"
    /\ grad' = None
    /\ pc' = "L113"
    /\ UNCHANGED <<disk, args, data, train_data, val_data, test_data, weight,
                   model, optimizer, frame, epoch, loss, train_rmse, val_rmse,
                   test_rmse, stdout>>

\* line 112: loss.backward()
Backward ==
    /\ pc = "L112"
    /\ grad' = <<"grad", frame.loss>>
    /\ pc' = "L113"
    /\ UNCHANGED <<disk, args, data, train_data, val_data, test_data, weight,
                   model, optimizer, frame, epoch, loss, train_rmse, val_rmse,
                   test_rmse, stdout>>

\* optimizer.step() of Adam: the referenced parameters that have a gradient
\* get the new values enc and dec, and the moments one more gradient
AdamStep(m, opt, g, enc, dec) ==
    IF g = None THEN <<m, opt>>
    ELSE <<[m EXCEPT !.theta =
               [encoder |-> IF EncoderParams({"rates", "rev_rates"}) \cap opt.params # {}
                            THEN enc ELSE m.theta.encoder,
                decoder |-> IF DecoderParams \cap opt.params # {}
                            THEN dec ELSE m.theta.decoder]],
           [opt EXCEPT !.steps = @ + 1]>>

\* line 113: optimizer.step()
OptimizerStep ==
    /\ pc = "L113"
    /\ \E enc \in Theta, dec \in Theta :
         LET r == AdamStep(model, optimizer, grad, enc, dec)
         IN  model' = r[1] /\ optimizer' = r[2]
    /\ pc' = "L114"
    /\ UNCHANGED <<disk, args, data, train_data, val_data, test_data, weight,
                   grad, frame, epoch, loss, train_rmse, val_rmse, test_rmse,
                   stdout>>

\* line 114: return float(loss), assigned to loss by line 129
TrainReturn ==
    /\ pc = "L114"
    /\ loss' = frame.loss
    /\ frame' = None
    /\ pc' = "L130"
    /\ UNCHANGED <<disk, args, data, train_data, val_data, test_data, weight,
                   model, optimizer, grad, epoch, train_rmse, val_rmse,
                   test_rmse, stdout>>

(* ----------------------------- test(data) ------------------------------ *)
\* the split each call site passes, and the line after the call
SiteData(site) ==
    IF site = "L130" THEN train_data
    ELSE IF site = "L131" THEN val_data ELSE test_data
SiteNext(site) ==
    IF site = "L130" THEN "L131" ELSE IF site = "L131" THEN "L132" ELSE "L133"

\* lines 130-132 call test(...); line 119: model.eval()
TestEval ==
    /\ pc \in {"L130", "L131", "L132"}
    /\ model' = [model EXCEPT !.training = FALSE]
    /\ frame' = [fn |-> "test", site |-> pc, data |-> SiteData(pc)]
    /\ pc' = "L120"
    /\ UNCHANGED <<disk, args, data, train_data, val_data, test_data, weight,
                   optimizer, grad, epoch, loss, train_rmse, val_rmse,
                   test_rmse, stdout>>

\* lines 120-121: pred = model(data.x_dict, ...), under no_grad
TestForward ==
    /\ pc = "L120"
    /\ frame' = [fn |-> "test", site |-> frame.site, data |-> frame.data,
                 pred |-> Forward(model, frame.data)]
    /\ pc' = "L122"
    /\ UNCHANGED <<disk, args, data, train_data, val_data, test_data, weight,
                   model, optimizer, grad, epoch, loss, train_rmse, val_rmse,
                   test_rmse, stdout>>

\* line 122: pred = pred.clamp(min=0, max=5)
TestClamp ==
    /\ pc = "L122"
    /\ frame' = [frame EXCEPT !.pred = Clamp(@, ClampMin, ClampMax)]
    /\ pc' = "L123"
    /\ UNCHANGED <<disk, args, data, train_data, val_data, test_data, weight,
                   model, optimizer, grad, epoch, loss, train_rmse, val_rmse,
                   test_rmse, stdout>>

\* lines 123-125: the rmse against the float labels
Rmse(p, d) == Sqrt(mse_loss(p, d.edges["rates"].edge_label))

\* lines 123-125: return float(rmse), assigned by the calling line
TestReturn ==
    /\ pc = "L123"
    /\ LET rmse == Rmse(frame.pred, frame.data)
       IN  /\ train_rmse' = IF frame.site = "L130" THEN rmse ELSE train_rmse
           /\ val_rmse' = IF frame.site = "L131" THEN rmse ELSE val_rmse
           /\ test_rmse' = IF frame.site = "L132" THEN rmse ELSE test_rmse
    /\ frame' = None
    /\ pc' = SiteNext(frame.site)
    /\ UNCHANGED <<disk, args, data, train_data, val_data, test_data, weight,
                   model, optimizer, grad, epoch, loss, stdout>>

(* ------------------------------ the loop ------------------------------- *)
\* range(1, 300): one epoch short
ForEpoch_short ==
    /\ pc = "L128"
    /\ LET next == epoch + 1
       IN  IF next >= LastEpoch
           THEN pc' = "done" /\ epoch' = epoch
           ELSE pc' = "L129" /\ epoch' = next
    /\ UNCHANGED <<disk, args, data, train_data, val_data, test_data, weight,
                   model, optimizer, grad, frame, loss, train_rmse, val_rmse,
                   test_rmse, stdout>>

\* line 128: for epoch in range(1, 301); epoch is 0 before the first iteration
ForEpoch ==
    /\ pc = "L128"
    /\ LET next == epoch + 1
       IN  IF next > LastEpoch
           THEN pc' = "done" /\ epoch' = epoch
           ELSE pc' = "L129" /\ epoch' = next
    /\ UNCHANGED <<disk, args, data, train_data, val_data, test_data, weight,
                   model, optimizer, grad, frame, loss, train_rmse, val_rmse,
                   test_rmse, stdout>>

\* lines 133-134: print(f'Epoch: ..., Loss: ..., Train: ..., Val: ..., Test: ...')
PrintEpoch ==
    /\ pc = "L133"
    /\ stdout' = [lines |-> stdout.lines + 1,
                  last |-> [Epoch |-> epoch, Loss |-> loss, Train |-> train_rmse,
                            Val |-> val_rmse, Test |-> test_rmse]]
    /\ pc' = "L128"
    /\ UNCHANGED <<disk, args, data, train_data, val_data, test_data, weight,
                   model, optimizer, grad, frame, epoch, loss, train_rmse,
                   val_rmse, test_rmse>>

(* --------------------------- the whole script -------------------------- *)
Unbound ==
    /\ data = None /\ train_data = None /\ val_data = None /\ test_data = None
    /\ weight = None /\ model = None /\ optimizer = None /\ grad = None
    /\ frame = None /\ epoch = 0 /\ loss = None
    /\ train_rmse = None /\ val_rmse = None /\ test_rmse = None
    /\ stdout = [lines |-> 0, last |-> None]

\* after lines 12-17: the flag is parsed, the dataset is on disk
Init ==
    /\ disk \in RunDisks
    /\ args \in [use_weighted_loss : BOOLEAN]
    /\ pc = "L21"
    /\ Unbound

Prepare ==
    \/ Load \/ EyeFeatures \/ DelNumNodes \/ AddReverse \/ DelRevLabel
    \/ LinkSplit \/ LinkSplitRaises \/ ComputeWeight

Setup == Construct \/ DryPass \/ CreateOptimizer

Train ==
    \/ TrainMode \/ ZeroGrad \/ TrainForward \/ TrainLoss \/ Backward
    \/ OptimizerStep \/ TrainReturn

Test == TestEval \/ TestForward \/ TestClamp \/ TestReturn

Next == Prepare \/ Setup \/ ForEpoch \/ Train \/ Test \/ PrintEpoch

Spec == Init /\ [][Next]_vars

(* ------------------- the other specifications ------------------------- *)
\* the data preparation alone (lines 21-47), on more datasets
InitPrep ==
    /\ disk \in PrepDisks
    /\ args \in [use_weighted_loss : BOOLEAN]
    /\ pc = "L21"
    /\ Unbound

SpecPrep == InitPrep /\ [][Prepare]_vars

\* the graph after lines 25-30, and its training split when the dataset is
\* too small for validation and test edges
Prepared(d) == DelLabel(ToUndirected(DelNum(WithEye(d))))
SplitOf(labels) ==
    RandomLinkSplit(Prepared(MovieLens(labels)), "rates", "rev_rates",
                    neg_sampling_ratio, {}, {})[1]

NoGlobals ==
    /\ data = None /\ train_data = None /\ val_data = None /\ test_data = None
    /\ model = None /\ optimizer = None /\ grad = None /\ epoch = 0
    /\ loss = None /\ train_rmse = None /\ val_rmse = None /\ test_rmse = None
    /\ stdout = [lines |-> 0, last |-> None]

\* the weight vectors given to the loss: none, the one lines 43-47 compute
\* from the targets, and one with a different weight for every rating
WeightsFor(target) ==
    {None, [b \in 1..(ClampMax + 1) |-> Norm(b, 2)]} \cup
    (IF target = <<>> THEN {} ELSE {MaxOver(Bincount(target))})

\* weighted_mse_loss on its own: line 111 for any pred, target and weight
InitLoss ==
    /\ \E n \in 0..MaxVecLen :
         \E p \in [1..n -> PredVals], t \in [1..n -> ClampMin..ClampMax] :
            /\ disk = MovieLens(t)
            /\ frame = [fn |-> "train", pred |-> p, target |-> t]
            /\ weight \in WeightsFor(t)
    /\ args = [use_weighted_loss |-> weight # None]
    /\ pc = "L111"
    /\ NoGlobals

SpecLoss == InitLoss /\ [][TrainLoss]_vars

\* test(data) after its forward pass: lines 122-125 for any prediction
InitClamp ==
    /\ \E n \in 0..MaxVecLen :
         \E p \in [1..n -> PredVals], t \in [1..n -> ClampMin..ClampMax] :
            /\ disk = MovieLens(t)
            /\ \E site \in {"L130", "L131", "L132"} :
                 frame = [fn |-> "test", site |-> site, data |-> SplitOf(t),
                          pred |-> p]
    /\ args \in [use_weighted_loss : {FALSE}]
    /\ weight = None
    /\ pc = "L122"
    /\ NoGlobals

SpecClamp == InitClamp /\ [][TestClamp \/ TestReturn]_vars

(* ----------------------------- properties ------------------------------ *)
PcsPrepare == {"L21", "L25", "L26", "L29", "L30", "L33"}
PcsTrain == {"L107", "L108", "L111", "L112", "L113", "L114"}
PcsTest == {"L120", "L122", "L123"}
PcsLoop == {"L129", "L130", "L131", "L132", "L133"} \cup PcsTrain \cup PcsTest
SplitsBound == pc \notin PcsPrepare \cup {"error"}

Target(d) == d.edges["rates"]
NoRepeat(t) == Cardinality(Range(t)) = Len(t)

\* (C1) each labelled pair of split d is an edge of the source graph and
\* carries that edge's rating
C1_Observed(d) ==
    \A i \in 1..Len(Target(d).edge_label_index) :
       \E j \in 1..Len(Target(data).edge_index) :
          /\ Target(data).edge_index[j] = Target(d).edge_label_index[i]
          /\ Target(data).edge_label[j] = Target(d).edge_label[i]

\* C1: once the splits exist, their labelled edges are pairwise disjoint, all
\* are observed edges of the source graph with their ratings, the three sizes
\* sum to the number of ratings, and validation and test hold a tenth each and
\* training eight tenths, within rounding
C1_SplitPartition ==
    SplitsBound =>
       LET tr == Target(train_data).edge_label_index
           va == Target(val_data).edge_label_index
           te == Target(test_data).edge_label_index
           n  == Len(Target(data).edge_label)
       IN  /\ NoRepeat(tr) /\ NoRepeat(va) /\ NoRepeat(te)
           /\ Range(tr) \cap Range(va) = {}
           /\ Range(tr) \cap Range(te) = {}
           /\ Range(va) \cap Range(te) = {}
           /\ C1_Observed(train_data) /\ C1_Observed(val_data)
           /\ C1_Observed(test_data)
           /\ Len(tr) + Len(va) + Len(te) = n
           /\ Abs(10 * Len(va) - n) < 10
           /\ Abs(10 * Len(te) - n) < 10
           /\ Abs(10 * Len(tr) - 8 * n) < 20

C1_Witness ==
    /\ pc = "L43"
    /\ Len(Target(val_data).edge_label) > 0
    /\ Len(Target(test_data).edge_label) > 0
    /\ Len(Target(train_data).edge_label) > Len(Target(val_data).edge_label)

\* (C2) the sum over the first i edges of w * (pred - target)^2
RECURSIVE C2_WeightedSum(_, _, _, _)
C2_WeightedSum(p, t, w, i) ==
    IF i = 0 THEN Rat(0)
    ELSE RAdd(C2_WeightedSum(p, t, w, i - 1),
              RMul(IF w = None THEN Rat(1) ELSE w[t[i] + 1],
                   Rat((p[i] - t[i]) * (p[i] - t[i]))))

\* (C2) the sum over the first i edges of (pred - target)^2, an integer
RECURSIVE C2_SquareSum(_, _, _)
C2_SquareSum(p, t, i) ==
    IF i = 0 THEN 0
    ELSE C2_SquareSum(p, t, i - 1) + (p[i] - t[i]) * (p[i] - t[i])

\* C2: for pred and target of the same non-zero length the loss is the mean
\* over the edges of w_i * (pred_i - target_i)^2 with w_i = weight[target_i],
\* or 1 without a weight vector, when it is the plain mean squared error
C2_LossIsWeightedMean ==
    (pc = "L112" /\ Len(frame.pred) > 0) =>
       LET n == Len(frame.pred)
       IN  /\ frame.loss = RMul(C2_WeightedSum(frame.pred, frame.target, weight, n),
                                Norm(1, n))
           /\ weight = None =>
                 frame.loss = Norm(C2_SquareSum(frame.pred, frame.target, n), n)

C2_Witness ==
    /\ pc = "L112"
    /\ Len(frame.pred) = 2
    /\ weight # None
    /\ frame.target[1] # frame.target[2]
    /\ weight[frame.target[1] + 1] # weight[frame.target[2] + 1]
    /\ frame.pred[1] # frame.target[1]
    /\ frame.loss # Norm(C2_SquareSum(frame.pred, frame.target, 2), 2)

\* (C3) the training labels and how many of them are the rating of bin b
TrainLabels == Target(train_data).edge_label
C3_Count(b) == Cardinality({i \in 1..Len(TrainLabels) : TrainLabels[i] = b - 1})
C3_Mode == SetMax({C3_Count(b) : b \in 1..Len(weight)})

\* C3: with the weighted loss on, every weight is at least 1, the weight of a
\* most frequent rating is 1 and the weight of every less frequent one is
\* above 1
C3_WeightsAtLeastOne ==
    (pc = "L95" /\ args.use_weighted_loss) =>
       /\ Len(weight) = SetMax(Range(TrainLabels)) + 1
       /\ \A b \in 1..Len(weight) :
             /\ RLe(Rat(1), weight[b])
             /\ C3_Count(b) = C3_Mode => weight[b] = Rat(1)
             /\ C3_Count(b) < C3_Mode => RLt(Rat(1), weight[b])

C3_Witness ==
    /\ pc = "L95" /\ args.use_weighted_loss
    /\ \E a, b, c \in 1..Len(weight) :
          weight[a] = Rat(1) /\ weight[b] = Rat(2) /\ weight[c] = Inf

\* (C4) the value the rating range leaves of a prediction
C4_InRange(v) == IF v < 0 THEN 0 ELSE IF v > 5 THEN 5 ELSE v

\* C4: test(data) clamps every prediction into 0..5 (below 0 to 0, above 5 to
\* 5, the others unchanged) and returns the root of the plain mean of the
\* squared errors of the clamped predictions against the split's labels
C4_ClampedRmse ==
    [][/\ pc = "L122" =>
            /\ Len(frame'.pred) = Len(frame.pred)
            /\ \A i \in 1..Len(frame.pred) :
                  /\ frame'.pred[i] = C4_InRange(frame.pred[i])
                  /\ 0 <= frame'.pred[i] /\ frame'.pred[i] <= 5
       /\ pc = "L123" =>
            LET t == Target(frame.data).edge_label
                r == Sqrt(Norm(C2_SquareSum(frame.pred, t, Len(t)), Len(t)))
            IN  /\ \A i \in 1..Len(frame.pred) :
                      0 <= frame.pred[i] /\ frame.pred[i] <= 5
                /\ frame.site = "L130" => train_rmse' = r
                /\ frame.site = "L131" => val_rmse' = r
                /\ frame.site = "L132" => test_rmse' = r]_vars

C4_Witness ==
    /\ pc = "L123"
    /\ frame.pred = <<0, 5>>
    /\ Target(frame.data).edge_label = <<1, 4>>

\* (C5) the steps of one iteration in their order (a step of test() with the
\* line that called it), and how many steps the loop is from its end
C5_Order ==
    <<"L129", "L107", "L108", "L111", "L112", "L113", "L114",
      "L130", "L130.L120", "L130.L122", "L130.L123",
      "L131", "L131.L120", "L131.L122", "L131.L123",
      "L132", "L132.L120", "L132.L122", "L132.L123", "L133">>
C5_Key == IF pc \in PcsTest THEN frame.site \o "." \o pc ELSE pc
C5_Rank ==
    IF pc = "done" THEN 0
    ELSE (300 - epoch) * (Len(C5_Order) + 1) + 1 +
         (IF pc = "L128" THEN 0
          ELSE Len(C5_Order) + 1 - (CHOOSE i \in 1..Len(C5_Order) : C5_Order[i] = C5_Key))

\* C5: the loop runs epochs 1, 2, ..., 300 and then ends, whatever the values:
\* an iteration calls train() once, then test() on train_data, val_data and
\* test_data in that order, then prints one line, so that the lines printed
\* are the epochs completed; the loop terminates: every step of it stays in
\* the loop or ends it and brings it one step nearer to its end
C5_LoopRuns300 ==
    /\ [](pc \in PcsLoop \cup {"L128", "done"} => C5_Rank >= 0)
    /\ [][(pc \in PcsLoop \cup {"L128"}) =>
            (pc' \in PcsLoop \cup {"L128", "done"} /\ C5_Rank' = C5_Rank - 1)]_vars
    /\ [](pc \in PcsLoop => epoch \in 1..300 /\ stdout.lines = epoch - 1)
    /\ [](pc = "L128" => /\ stdout.lines = epoch
                         /\ epoch > 0 => stdout.last.Epoch = epoch)
    /\ [](pc = "done" => epoch = 300 /\ stdout.lines = 300)
    /\ [][/\ (frame = None /\ frame' # None) =>
               \/ pc = "L129" /\ frame'.fn = "train"
               \/ pc = "L130" /\ frame'.fn = "test" /\ frame'.data = train_data
               \/ pc = "L131" /\ frame'.fn = "test" /\ frame'.data = val_data
               \/ pc = "L132" /\ frame'.fn = "test" /\ frame'.data = test_data
          /\ (frame # None /\ frame' = None) =>
               \/ frame.fn = "train" /\ pc' = "L130"
               \/ frame.fn = "test" /\ frame.data = train_data /\ pc' = "L131"
               \/ frame.fn = "test" /\ frame.data = val_data /\ pc' = "L132"
               \/ frame.fn = "test" /\ frame.data = test_data /\ pc' = "L133"
          /\ pc \in {"L129", "L130", "L131", "L132"} => frame' # None
          /\ stdout' # stdout => pc = "L133" /\ pc' = "L128"
          /\ epoch' # epoch => pc = "L128" /\ epoch' = epoch + 1
          /\ pc' = "done" => pc = "L128" /\ epoch = 300]_vars

C5_Witness ==
    /\ pc = "done"
    /\ stdout.lines = 300
    /\ stdout.last.Epoch = 300

\* (C6) the relations of split d that carry an edge label
C6_Labelled(d) == {r \in DOMAIN d.edges : "edge_label" \in DOMAIN d.edges[r]}

\* C6: from the end of the data preparation on, every relation of the dataset
\* has its reverse relation (the same edges, flipped), rev_rates carries no
\* label and rates carries the dataset's labels; the splits carry a label on
\* rates alone
C6_OnlyTargetLabelled ==
    /\ pc \notin {"L21", "L25", "L26", "L29", "L30"} =>
          /\ \A r \in DOMAIN disk.edges :
                /\ Rev(r) \in DOMAIN data.edges
                /\ data.edges[Rev(r)].edge_index = Flip(data.edges[r].edge_index)
          /\ "edge_label" \notin DOMAIN data.edges["rev_rates"]
          /\ "edge_label" \in DOMAIN data.edges["rates"]
          /\ data.edges["rates"].edge_label = disk.edges["rates"].edge_label
          /\ C6_Labelled(data) = {"rates"}
    /\ SplitsBound =>
          /\ C6_Labelled(train_data) = {"rates"}
          /\ C6_Labelled(val_data) = {"rates"}
          /\ C6_Labelled(test_data) = {"rates"}

C6_Witness ==
    /\ pc = "L111"
    /\ epoch = 2
    /\ DOMAIN train_data.edges = {"rates", "rev_rates"}
    /\ DOMAIN train_data.edges["rev_rates"] = {"edge_index"}
    /\ Len(train_data.edges["rev_rates"].edge_index) = MaxRunEdges

\* (C7) what test(d) returns with the current parameters
C7_RmseNow(d) == Rmse(Clamp(Forward(model, d), ClampMin, ClampMax), d)

\* C7: in an iteration the gradients are reset before the forward pass, the
\* loss is computed before its gradients, which exist when the update runs;
\* the update is the iteration's only one and is done before the evaluations;
\* the loss printed is that of the parameters before the update, the three
\* RMSEs printed are those of the parameters after it; 300 updates in all
C7_StepOrder ==
    /\ pc \in {"L108", "L111", "L112"} => grad = None
    /\ pc \in {"L112", "L113"} =>
          frame.loss = weighted_mse_loss(Forward(model, train_data),
                                         TrainLabels, weight)
    /\ pc \in {"L113", "L114"} => grad = <<"grad", frame.loss>>
    /\ pc \in {"L129", "L107", "L108", "L111", "L112", "L113"} =>
          optimizer.steps = epoch - 1
    /\ pc \in {"L114", "L130", "L131", "L132", "L133"} \cup PcsTest =>
          optimizer.steps = epoch
    /\ pc \in {"L130", "L131", "L132", "L133"} \cup PcsTest => loss = grad[2]
    /\ pc \in {"L131", "L132", "L133"} => train_rmse = C7_RmseNow(train_data)
    /\ pc \in {"L132", "L133"} => val_rmse = C7_RmseNow(val_data)
    /\ pc = "L133" => test_rmse = C7_RmseNow(test_data)
    /\ pc = "L128" /\ epoch > 0 =>
          /\ stdout.last.Loss = grad[2]
          /\ stdout.last.Train = C7_RmseNow(train_data)
          /\ stdout.last.Val = C7_RmseNow(val_data)
          /\ stdout.last.Test = C7_RmseNow(test_data)
          /\ optimizer.steps = epoch
    /\ pc = "done" => optimizer.steps = 300

C7_Witness ==
    /\ pc = "L128"
    /\ epoch = 2
    /\ optimizer.steps = 2
    /\ stdout.last.Loss # weighted_mse_loss(Forward(model, train_data),
                                            TrainLabels, weight)

\* C8: the model is built with lazily shaped encoder parameters and concrete
\* decoder ones; the one encoder pass of lines 99-100 shapes them without
\* gradients and without changing a parameter that has a value; the optimizer
\* is created after it, over parameters that all have a shape, and the set it
\* references never changes
C8_InitOrder ==
    /\ [](pc = "L99" =>
            /\ optimizer = None /\ grad = None
            /\ \A p \in DOMAIN model.shape :
                  model.shape[p] = (IF p \in DecoderParams THEN "concrete" ELSE "lazy")
            /\ EncoderParams({"rates", "rev_rates"}) \subseteq DOMAIN model.shape)
    /\ [](pc = "L102" => optimizer = None /\ grad = None)
    /\ [](optimizer # None =>
            /\ \A p \in DOMAIN model.shape : model.shape[p] = "concrete"
            /\ model.theta.encoder \in Theta /\ model.theta.decoder \in Theta
            /\ optimizer.params = DOMAIN model.shape
            /\ optimizer.params =
                  EncoderParams({"rates", "rev_rates"}) \cup DecoderParams)
    /\ [][/\ (model # None /\ model'.shape # model.shape) => pc = "L99"
          /\ pc = "L99" => /\ model'.theta.decoder = model.theta.decoder
                           /\ model'.training = model.training
                           /\ optimizer' = None /\ grad' = None
          /\ optimizer' # optimizer =>
                \/ pc = "L102" /\ optimizer = None
                \/ pc = "L113" /\ optimizer'.params = optimizer.params]_vars

C8_Witness ==
    /\ pc = "done"
    /\ optimizer.steps = 300
    /\ Cardinality(optimizer.params) = 6

\* C9: with the weighted loss on, at every loss computation of train() each
\* target is an index of the weight vector, whose length is the largest
\* training label plus one, its bin is not empty, and its weight is finite
\* and at least 1, also when a smaller rating has an empty bin
C9_TargetWeightsFinite ==
    (pc = "L111" /\ args.use_weighted_loss) =>
       /\ Len(weight) = SetMax(Range(TrainLabels)) + 1
       /\ frame.target = TrainLabels
       /\ \A i \in 1..Len(frame.target) :
             LET t == frame.target[i]
             IN  /\ t + 1 \in 1..Len(weight)
                 /\ C3_Count(t + 1) > 0
                 /\ IsFinite(weight[t + 1])
                 /\ RLe(Rat(1), weight[t + 1])
                 /\ IndexBy(weight, frame.target)[i] = Norm(C3_Mode, C3_Count(t + 1))

C9_Witness ==
    /\ pc = "L111" /\ args.use_weighted_loss
    /\ epoch = 300
    /\ \E b \in 1..Len(weight) : weight[b] = Inf
    /\ \E i \in 1..Len(frame.target) : weight[frame.target[i] + 1] = Rat(2)

\* C10: a step of test() changes neither the parameters, nor the optimizer,
\* nor the gradients, nor the weights, nor the splits: only the mode flag (and
\* its result, assigned by the caller); a parameter value changes only in
\* optimizer.step(); the weights and the splits never change once computed;
\* test() leaves the model in evaluation mode and train() runs its forward
\* pass in training mode
C10_TestFrame ==
    /\ [](pc \in PcsTest => ~model.training)
    /\ [](pc \in PcsTrain => model.training)
    /\ [][/\ pc \in {"L130", "L131", "L132"} \cup PcsTest =>
               /\ model'.theta = model.theta /\ model'.shape = model.shape
               /\ optimizer' = optimizer /\ grad' = grad /\ weight' = weight
               /\ train_data' = train_data /\ val_data' = val_data
               /\ test_data' = test_data /\ data' = data
               /\ loss' = loss /\ epoch' = epoch /\ stdout' = stdout
          /\ (optimizer # None /\ model'.theta # model.theta) => pc = "L113"
          /\ (model # None /\ model'.theta.decoder # model.theta.decoder) =>
                pc = "L113"
          /\ pc \notin PcsPrepare \cup {"L43"} => weight' = weight
          /\ pc \notin PcsPrepare =>
                /\ train_data' = train_data /\ val_data' = val_data
                /\ test_data' = test_data /\ data' = data]_vars

C10_Witness ==
    /\ pc = "L108"
    /\ epoch = 2
    /\ model.training
    /\ optimizer.steps = 1
    /\ train_rmse # None /\ test_rmse # None

====
